---- MODULE Spec2Model ----
(***************************************************************************)
(* PM2 management service (src/index.js): the WebSocket log-streaming      *)
(* gateway (wss 'connection' handler, streamLogs, tail child processes)    *)
(* and the HTTP control endpoints, over a small file system and the        *)
(* external supervisor's process list.                                     *)
(*                                                                         *)
(* A log file is a sequence of characters (integers): NL is '\n', SP is a  *)
(* blank, every other character is the number of the line it belongs to.   *)
(* The line written as the id-th line of a run has the text <<id, id>>.    *)
(***************************************************************************)
EXTENDS Integers, Sequences, FiniteSets, TLC

\* ---------------------------------------------------------------- bounds
MaxConns == 2        \* WebSocket connections a run has room for
MaxEvents == 3       \* events from outside in one run: connections and client
                     \* messages, HTTP requests, log writes and rotations,
                     \* changes of the supervisor's process list
MaxReqs == 1         \* HTTP requests among them

\* ------------------------------------------------------------- constants
NL == 0              \* '\n'
SP == -1             \* a whitespace character other than '\n'
MAX_LOG_LINES == 5000
BACKLOG_LINES == 100 \* lines.slice(-100)
POLICY_VIOLATION == 1008
INTERNAL_ERROR == 1011
LOGS_LIMIT == 1000   \* allLogs.slice(0, 1000)

Conns == 1..MaxConns
Channels == {"out", "error"}
Names == {"app", "ghost", ""}
LogTypes == {"both", "out", "error", "all"}
ClientMsgs == {"ping", "other", "null", "garbage"}
\* spawn('tail', ...): the child runs; or the spawn fails and 'error' is emitted
\* on the child at the next tick ("error": ENOENT, EACCES, EAGAIN); or it fails
\* at the descriptor limit (EMFILE, ENFILE), where the child has no stdio
\* streams either ("nostdio")
SpawnResults == {"ok", "error", "nostdio"}

ControlKinds == {"restart", "stop", "start"}
ReqKinds == ControlKinds \cup {"logs", "list", "detail"}
CmdResults == {"ok", "notfound", "unavailable"}

VARIABLES
    \* file system: the inode each log path names (0: no file), inode contents
    path, inodes, nextId,
    \* supervisor: the names `pm2 jlist` reports
    procs,
    \* the events from outside so far
    events,
    \* per WebSocket connection
    wsState,       \* ws.readyState: "none" (not accepted yet) | "open" | "closing" | "closed"
    closeCode,     \* the code the gateway passed to ws.close (0: it never closed)
    chk,           \* getPM2Process promise: "idle" | "rejected" | "pending" | "found" |
                   \* "notfound" | "threw" (the then-callback threw, the catch ran)
    processName, logType,
    sent,          \* messages transmitted to the client, in order
    recv,          \* messages the client sent while the socket was open
    listening,     \* 'message', 'close' and 'error' listeners are registered
    tail,          \* tail child processes, per channel
    tailProcess,   \* streamLogs' closure variable: "null" or the channel it holds
    cleanups,      \* how many times streamLogs' cleanup ran
    early,         \* the client disconnected while the existence check was pending
    wsConnections, \* the registry Map, as the set of its entries
    crashed,       \* the service's process died of an uncaught exception
    \* HTTP control endpoints
    req,           \* the requests in flight and answered
    cmds,          \* the supervisor commands executed, in order
    \* service log
    logFile,       \* the file at the path logFile: whether it exists, its content
    now            \* the clock new Date() reads, in ticks from 1

gwVars == <<wsState, closeCode, chk, processName, logType, sent, recv, listening,
            tail, tailProcess, cleanups, early, wsConnections, crashed>>
fsVars == <<path, inodes, nextId>>
httpVars == <<req, cmds>>
logVars == <<logFile, now>>
vars == <<fsVars, procs, events, gwVars, httpVars, logVars>>

\* ------------------------------------------------------------ pure helpers
Max(a, b) == IF a > b THEN a ELSE b
Min(a, b) == IF a < b THEN a ELSE b

Text(id) == <<id, id>>
Line(id) == Text(id) \o <<NL>>

\* String.prototype.split('\n'): the pieces between the separators, in order;
\* the empty string gives one empty piece. Computed by halving the string: the
\* last piece of the left half and the first of the right half are one piece.
RECURSIVE Split(_)
Split(s) ==
    IF Len(s) = 0 THEN << <<>> >>
    ELSE IF Len(s) = 1 THEN (IF s[1] = NL THEN << <<>>, <<>> >> ELSE << s >>)
    ELSE LET h == Len(s) \div 2
             l == Split(SubSeq(s, 1, h))
             r == Split(SubSeq(s, h + 1, Len(s)))
         IN  SubSeq(l, 1, Len(l) - 1) \o << l[Len(l)] \o r[1] >> \o Tail(r)

\* line => line.trim(): truthy when a non-whitespace character is left
NonBlank(line) == \E i \in 1..Len(line) : line[i] # SP /\ line[i] # NL

\* content.split('\n').filter(line => line.trim())
Lines(content) == SelectSeq(Split(content), NonBlank)

\* Array.prototype.reverse
Reverse(s) == [i \in 1..Len(s) |-> s[Len(s) + 1 - i]]

\* lines.slice(-n)
LastN(s, n) == SubSeq(s, Max(1, Len(s) - n + 1), Len(s))

\* ------------------------------------------------------------ file system
Exists(ch) == path[ch] # 0                     \* fs.existsSync
Content(ch) == inodes[path[ch]]                \* fs.readFileSync(.., 'utf8')

\* The supervised process writes one more line to its log; a log that does
\* not exist (never written, or renamed away) is created first.
Write(ch, bytes) ==
    /\ events < MaxEvents
    /\ events' = events + 1
    /\ IF Exists(ch)
       THEN /\ inodes' = [inodes EXCEPT ![path[ch]] = @ \o bytes]
            /\ path' = path
       ELSE /\ inodes' = Append(inodes, bytes)
            /\ path' = [path EXCEPT ![ch] = Len(inodes) + 1]

AppendLine(ch) ==
    /\ Write(ch, Line(nextId))
    /\ nextId' = nextId + 1
    /\ UNCHANGED <<procs, gwVars, httpVars, logVars>>

AppendBlank(ch) ==
    /\ Write(ch, <<SP, NL>>)
    /\ UNCHANGED <<nextId, procs, gwVars, httpVars, logVars>>

\* External rotation: the log is renamed away; the path names no file until
\* the next write creates a new one. Readers of the old inode keep it.
Rotate(ch) ==
    /\ Exists(ch)
    /\ events < MaxEvents
    /\ events' = events + 1
    /\ path' = [path EXCEPT ![ch] = 0]
    /\ UNCHANGED <<inodes, nextId, procs, gwVars, httpVars, logVars>>

\* ------------------------------------------------------------- supervisor
\* getPM2Process: the entry of `pm2 jlist` with that name, or null; a failed
\* query (up = FALSE) is caught and gives null as well.
GetPM2Process(name, up) == IF up /\ name \in procs THEN name ELSE "null"

\* ---------------------------------------------------------------- gateway
ConnectedMsg(c) ==
    [type |-> "connected", process |-> processName[c], logType |-> logType[c]]
NotFoundMsg(c) ==
    [type |-> "error", message |-> <<"Process", processName[c], "not found">>]
VerifyErrorMsg == [type |-> "error", message |-> <<"Error verifying process">>]
PongMsg == [type |-> "pong"]
LogMsg(c, ch, line) ==
    [type |-> "log", process |-> processName[c], logType |-> ch, message |-> line]

\* ws.send: transmits on an OPEN socket; on a closed one nothing is sent and
\* nothing is thrown (ws >= 8, the version that exports WebSocketServer).
WsSend(c, s, msg) == IF wsState[c] = "open" THEN Append(s, msg) ELSE s

\* lines.forEach(line => sendLog(line, type)), on the message sequence s
SendLogs(c, s, lines, ch) ==
    IF wsState[c] = "open"
    THEN s \o [i \in 1..Len(lines) |-> LogMsg(c, ch, lines[i])]
    ELSE s

\* A tail child process: its state, the inode it has open, the offset it has
\* copied up to; from (the offset it started at) and backlog (the backlog
\* messages sent before it was spawned) are kept for the properties only.
NoTail == [st |-> "none", ino |-> 0, off |-> 0, from |-> 0, backlog |-> 0]

\* Mutant of BacklogLines: the slice(-100) is missing, every line is replayed.
BacklogLinesAll(ch) == IF Exists(ch) THEN Lines(Content(ch)) ELSE <<>>

\* readExistingLogs' recentLines
BacklogLines(ch) == IF Exists(ch) THEN LastN(Lines(Content(ch)), BACKLOG_LINES) ELSE <<>>

Spawned(c, ch) ==
    [st |-> "spawned", ino |-> 0, off |-> 0, from |-> 0,
     backlog |-> IF wsState[c] = "open" THEN Len(BacklogLines(ch)) ELSE 0]

\* the child object of a spawn that failed: no process behind it
Failed(c, ch) == [Spawned(c, ch) EXCEPT !.st = "failed"]

ReadExistingLogs(c, s, ch) == SendLogs(c, s, BacklogLines(ch), ch)

Wants(type, ch) == type = "both" \/ type = ch

\* startTailing spawns a tail for ch
StartsTail(c, ch) == Wants(logType[c], ch) /\ Exists(ch)

AllOk == [ch \in Channels |-> "ok"]

\* With the spawn results sp: `tailProcess.stdout.on(...)` (l.225) or
\* `errorTailProcess.stdout.on(...)` (l.241) throws a TypeError on a child
\* without stdio, which ends startTailing, streamLogs and the then-callback.
OutThrows(c, sp) == StartsTail(c, "out") /\ sp["out"] = "nostdio"
ErrorThrows(c, sp) == ~OutThrows(c, sp) /\ StartsTail(c, "error") /\ sp["error"] = "nostdio"
StreamLogsThrows(c, sp) == OutThrows(c, sp) \/ ErrorThrows(c, sp)

\* startTailing gets as far as the spawn for ch
Attempted(c, sp, ch) == StartsTail(c, ch) /\ (ch = "error" => ~OutThrows(c, sp))

\* a child whose spawn failed emits 'error'; no listener is registered for it
SpawnFailed(c, sp) == \E ch \in Channels : Attempted(c, sp, ch) /\ sp[ch] # "ok"

\* startTailing: the messages sent, the child processes spawned, tailProcess
StartTailingSent(c, s, sp) ==
    LET s1 == IF Attempted(c, sp, "out") THEN ReadExistingLogs(c, s, "out") ELSE s
    IN  IF Attempted(c, sp, "error") THEN ReadExistingLogs(c, s1, "error") ELSE s1

StartTailingTails(c, sp) ==
    [ch \in Channels |->
        IF Attempted(c, sp, ch)
        THEN (IF sp[ch] = "ok" THEN Spawned(c, ch) ELSE Failed(c, ch))
        ELSE NoTail]

StartTailingTailProcess(c) == IF StartsTail(c, "out") THEN "out" ELSE "null"

\* Mutant of SessionSent: streamLogs is called before the confirmation is sent.
SessionSentLogsFirst(c, sp) == WsSend(c, StartTailingSent(c, sent[c], sp), ConnectedMsg(c))

\* What the client is sent when its session opens: the confirmation, then
\* streamLogs' backlog.
SessionSent(c, sp) == StartTailingSent(c, WsSend(c, sent[c], ConnectedMsg(c)), sp)

\* ChildProcess.kill()
Kill(t) == IF t.st \in {"spawned", "running"} THEN [t EXCEPT !.st = "killed"] ELSE t

\* Mutant of Cleanup: an invocation that finds the stdout tail already dead
\* goes on to the next tail of the session.
CleanupOneMore(c, tl) ==
    IF tailProcess[c] = "null" THEN tl
    ELSE IF tl[tailProcess[c]].st \in {"spawned", "running"}
         THEN [tl EXCEPT ![tailProcess[c]] = Kill(@)]
         ELSE [ch \in Channels |-> Kill(tl[ch])]

\* streamLogs' cleanup, on the tails tl of connection c (watchers is always [])
Cleanup(c, tl) ==
    IF tailProcess[c] # "null" THEN [tl EXCEPT ![tailProcess[c]] = Kill(@)] ELSE tl

\* wss.on('connection'): a request the upgrade handler let through
Connect(c, name, type) ==
    /\ ~crashed
    /\ wsState[c] = "none"
    /\ events < MaxEvents
    /\ events' = events + 1
    /\ IF c = 1 THEN TRUE ELSE wsState[c - 1] # "none"    \* numbered as they arrive
    /\ processName' = [processName EXCEPT ![c] = name]
    /\ logType' = [logType EXCEPT ![c] = type]
    /\ IF name = ""
       THEN /\ wsState' = [wsState EXCEPT ![c] = "closing"]
            /\ closeCode' = [closeCode EXCEPT ![c] = POLICY_VIOLATION]
            /\ chk' = [chk EXCEPT ![c] = "rejected"]
       ELSE /\ wsState' = [wsState EXCEPT ![c] = "open"]
            /\ chk' = [chk EXCEPT ![c] = "pending"]
            /\ UNCHANGED closeCode
    /\ UNCHANGED <<sent, recv, listening, tail, tailProcess, cleanups, early,
                   wsConnections, crashed, fsVars, procs, httpVars, logVars>>

\* lines 647-654: the catch handler's message and ws.close(1011), on the
\* message sequence s
CatchSent(c, s) == WsSend(c, s, VerifyErrorMsg)

\* lines 605-646: confirmation, streamLogs, registry entry, listeners. When
\* streamLogs throws, the rest of the callback is skipped and the catch
\* handler (l.647-654) runs. The 'error' event of a child whose spawn failed
\* is emitted at the next tick, before any other event is handled: with no
\* listener for it, it is thrown as an uncaught exception and ends the process.
OpenSession(c, sp) ==
    /\ tail' = [tail EXCEPT ![c] = StartTailingTails(c, sp)]
    /\ tailProcess' = [tailProcess EXCEPT ![c] = StartTailingTailProcess(c)]
    /\ crashed' = SpawnFailed(c, sp)
    /\ IF StreamLogsThrows(c, sp)
       THEN /\ chk' = [chk EXCEPT ![c] = "threw"]
            /\ sent' = [sent EXCEPT ![c] = CatchSent(c, SessionSent(c, sp))]
            /\ IF wsState[c] = "open"
               THEN /\ wsState' = [wsState EXCEPT ![c] = "closing"]
                    /\ closeCode' = [closeCode EXCEPT ![c] = INTERNAL_ERROR]
               ELSE UNCHANGED <<wsState, closeCode>>
            /\ UNCHANGED <<wsConnections, listening>>
       ELSE /\ chk' = [chk EXCEPT ![c] = "found"]
            /\ sent' = [sent EXCEPT ![c] = SessionSent(c, sp)]
            /\ wsConnections' = wsConnections \cup {[ws |-> c, processName |-> processName[c]]}
            /\ listening' = [listening EXCEPT ![c] = TRUE]
            /\ UNCHANGED <<wsState, closeCode>>

\* Mutant of RejectNotFound: the `return` of line 602 is missing, so the
\* handler goes on to open the session on the socket it has just closed.
RejectNotFoundNoReturn(c) ==
    /\ chk' = [chk EXCEPT ![c] = "notfound"]
    /\ sent' = [sent EXCEPT ![c] = WsSend(c, @, NotFoundMsg(c))]
    /\ wsState' = [wsState EXCEPT ![c] = IF @ = "open" THEN "closing" ELSE @]
    /\ closeCode' = [closeCode EXCEPT ![c] = IF wsState[c] = "open" THEN POLICY_VIOLATION ELSE @]
    /\ tail' = [tail EXCEPT ![c] = StartTailingTails(c, AllOk)]
    /\ tailProcess' = [tailProcess EXCEPT ![c] = StartTailingTailProcess(c)]
    /\ wsConnections' = wsConnections \cup {[ws |-> c, processName |-> processName[c]]}
    /\ listening' = [listening EXCEPT ![c] = TRUE]
    /\ UNCHANGED crashed

\* Mutant of RejectNotFound: the ws.close of line 601 is missing.
RejectNotFoundNoClose(c) ==
    /\ chk' = [chk EXCEPT ![c] = "notfound"]
    /\ sent' = [sent EXCEPT ![c] = WsSend(c, @, NotFoundMsg(c))]
    /\ UNCHANGED <<wsState, closeCode, listening, tail, tailProcess, wsConnections, crashed>>

\* lines 596-603: the error message, then ws.close(1008); no session
RejectNotFound(c) ==
    /\ chk' = [chk EXCEPT ![c] = "notfound"]
    /\ sent' = [sent EXCEPT ![c] = WsSend(c, @, NotFoundMsg(c))]
    /\ IF wsState[c] = "open"
       THEN /\ wsState' = [wsState EXCEPT ![c] = "closing"]
            /\ closeCode' = [closeCode EXCEPT ![c] = POLICY_VIOLATION]
       ELSE UNCHANGED <<wsState, closeCode>>
    /\ UNCHANGED <<listening, tail, tailProcess, wsConnections, crashed>>

\* getPM2Process(processName).then(process => {...}).catch(...); sp gives the
\* result of each spawn the callback gets to ("ok" for those it does not)
CheckResolve(c, up, sp) ==
    /\ ~crashed
    /\ chk[c] = "pending"
    /\ IF GetPM2Process(processName[c], up) = "null"
       THEN sp = AllOk /\ RejectNotFound(c)
       ELSE /\ \A ch \in Channels : sp[ch] # "ok" => Attempted(c, sp, ch)
            /\ OpenSession(c, sp)
    /\ UNCHANGED <<processName, logType, recv, cleanups, early, fsVars, procs, events, httpVars, logVars>>

\* ws.on('message'): JSON.parse throws on text that is no JSON, reading .type
\* of null throws a TypeError; both are caught and ignored.
JsonParseThrows(m) == m = "garbage"
TypeReadThrows(m) == m = "null"
MsgType(m) == IF m = "ping" THEN "ping" ELSE "other"

\* Mutant of OnMessageSent: the catch block answers a malformed payload.
OnMessageSentReplying(c, m) ==
    IF JsonParseThrows(m) \/ TypeReadThrows(m)
    THEN WsSend(c, sent[c], [type |-> "error", message |-> <<"Invalid message">>])
    ELSE IF MsgType(m) = "ping" THEN WsSend(c, sent[c], PongMsg) ELSE sent[c]

OnMessageSent(c, m) ==
    IF ~JsonParseThrows(m) /\ ~TypeReadThrows(m) /\ MsgType(m) = "ping"
    THEN WsSend(c, sent[c], PongMsg)
    ELSE sent[c]

\* A client message arrives on an open socket; without a 'message' listener
\* (the existence check has not resolved yet) the event is dropped.
ClientMessage(c, m) ==
    /\ ~crashed
    /\ wsState[c] = "open"
    /\ events < MaxEvents
    /\ events' = events + 1
    /\ recv' = [recv EXCEPT ![c] = Append(@, m)]
    /\ sent' = [sent EXCEPT ![c] = IF listening[c] THEN OnMessageSent(c, m) ELSE @]
    /\ UNCHANGED <<wsState, closeCode, chk, processName, logType, listening, tail,
                   tailProcess, cleanups, early, wsConnections, crashed, fsVars, procs, httpVars, logVars>>

\* The listeners of one event, in registration order: streamLogs' cleanup
\* (lines 268-269), then the handler of lines 630-646, which runs the
\* registry entry's cleanup if the entry is still there and deletes it.
InRegistry(c) == \E e \in wsConnections : e.ws = c

\* The 'close' or 'error' listeners of connection c, in the order they were
\* registered: streamLogs' cleanup, then the registry handler, which invokes
\* the cleanup of the registry entry once more and deletes the entry.
RunListeners(c) ==
    IF listening[c]
    THEN /\ tail' = [tail EXCEPT ![c] =
                      IF InRegistry(c) THEN Cleanup(c, Cleanup(c, @)) ELSE Cleanup(c, @)]
         /\ cleanups' = [cleanups EXCEPT ![c] = @ + 1 + (IF InRegistry(c) THEN 1 ELSE 0)]
         /\ wsConnections' = {e \in wsConnections : e.ws # c}
    ELSE UNCHANGED <<tail, cleanups, wsConnections>>

\* Transport error: the socket leaves OPEN and 'error' is emitted ('close'
\* follows as its own event).
WsError(c) ==
    /\ ~crashed
    /\ wsState[c] = "open"
    /\ wsState' = [wsState EXCEPT ![c] = "closing"]
    /\ early' = [early EXCEPT ![c] = (chk[c] = "pending")]
    /\ RunListeners(c)
    /\ UNCHANGED <<closeCode, chk, processName, logType, sent, recv, listening,
                   tailProcess, crashed, fsVars, procs, events, httpVars, logVars>>

\* The connection ends (client close, end of the closing handshake, or the
\* close that follows an error): 'close' is emitted once.
WsClose(c) ==
    /\ ~crashed
    /\ wsState[c] \in {"open", "closing"}
    /\ wsState' = [wsState EXCEPT ![c] = "closed"]
    /\ early' = [early EXCEPT ![c] = @ \/ chk[c] = "pending"]
    /\ RunListeners(c)
    /\ UNCHANGED <<closeCode, chk, processName, logType, sent, recv, listening,
                   tailProcess, crashed, fsVars, procs, events, httpVars, logVars>>

\* ------------------------------------------------------- tail -f -n 0 <path>
\* Mutant of TailStart: tail -f without -n 0 starts at the first of the last
\* ten lines, which is the start of a file of at most ten lines.
TailStartDefault(ch) == 0

\* '-n', '0': the child starts copying at the end of the file as it is when
\* the child opens it
TailStart(ch) == Len(Content(ch))

\* The spawned child opens the path and seeks to the end of the file (-n 0);
\* it exits when the path names no file.
TailOpen(c, ch) ==
    /\ tail[c][ch].st = "spawned"
    /\ tail' = [tail EXCEPT ![c][ch] =
                  IF Exists(ch)
                  THEN [@ EXCEPT !.st = "running", !.ino = path[ch],
                                 !.off = TailStart(ch), !.from = TailStart(ch)]
                  ELSE [@ EXCEPT !.st = "exited"]]
    /\ UNCHANGED <<wsState, closeCode, chk, processName, logType, sent, recv, listening,
                   tailProcess, cleanups, early, wsConnections, crashed, fsVars, procs, events, httpVars, logVars>>

\* Mutant of OnData: the lines of a chunk are sent last first.
OnDataReversed(c, ch, chunk) == SendLogs(c, sent[c], Reverse(Lines(chunk)), ch)

\* stdout.on('data'): data.toString().split('\n').filter(trim).forEach(sendLog)
OnData(c, ch, chunk) == SendLogs(c, sent[c], Lines(chunk), ch)

\* bytes of its inode a running tail has not copied yet
Unread(c, ch) ==
    IF tail[c][ch].st = "running" THEN Len(inodes[tail[c][ch].ino]) - tail[c][ch].off ELSE 0

\* Chunk boundaries show only through sendLog, which sends on an open socket
\* alone: for any other socket the unread bytes are taken as one chunk.
ChunkSizes(c, ch) ==
    IF wsState[c] = "open" THEN 1..Unread(c, ch) ELSE {Unread(c, ch)} \ {0}

\* The child (-f follows the open descriptor, not the name) copies n more bytes
\* of its inode to the pipe and the gateway's 'data' listener gets them as one
\* chunk; where a chunk ends is up to the child and the pipe.
TailData(c, ch) ==
    \E n \in ChunkSizes(c, ch) :
    LET t == tail[c][ch] IN
    /\ ~crashed
    /\ t.st = "running"
    /\ tail' = [tail EXCEPT ![c][ch].off = @ + n]
    /\ sent' = [sent EXCEPT ![c] = OnData(c, ch, SubSeq(inodes[t.ino], t.off + 1, t.off + n))]
    /\ UNCHANGED <<wsState, closeCode, chk, processName, logType, recv, listening,
                   tailProcess, cleanups, early, wsConnections, crashed, fsVars, procs, events, httpVars, logVars>>

\* ------------------------------------------------- HTTP control endpoints
\* The log files belong to the process "app": `${PM2_LOG_DIR}/${name}-out.log`.
HasLog(name, ch) == name = "app" /\ Exists(ch)

\* lines 361-386: the non-blank lines of one log as entries, [] without a file
LogEntries(name, ch) ==
    IF HasLog(name, ch)
    THEN LET ls == Lines(Content(ch))
         IN  [i \in 1..Len(ls) |-> [type |-> ch, message |-> ls[i], timestamp |-> "null"]]
    ELSE <<>>

\* Mutant of AllLogs: each log is reversed on its own before they are joined.
AllLogsEachReversed(outLogs, errorLogs) == Reverse(outLogs) \o Reverse(errorLogs)

\* lines 389-391: [...outLogs, ...errorLogs], reversed in place
AllLogs(outLogs, errorLogs) == Reverse(outLogs \o errorLogs)

\* lines 393-400: the body of the 200 response of GET /pm2/[name]/logs
LogsBody(name) ==
    LET outLogs == LogEntries(name, "out")
        errorLogs == LogEntries(name, "error")
        allLogs == AllLogs(outLogs, errorLogs)
    IN  [status |-> "success",
         service |-> name,
         logs |-> SubSeq(allLogs, 1, Min(Len(allLogs), LOGS_LIMIT)),
         totalLines |-> Len(allLogs),
         outLogLines |-> Len(outLogs),
         errorLogLines |-> Len(errorLogs)]

ErrorBody(msg) == [status |-> "error", message |-> msg]
SuccessBody(name, msg) == [status |-> "success", message |-> msg, service |-> name]

NoBody == [status |-> "none"]

\* restartPM2Process and stopPM2Process query the supervisor first (l.115,
\* 138), as do the logs, detail and list routes (l.345, 414, 301);
\* startPM2Process does not.
NeedsLookup(kind) == kind \in {"restart", "stop", "logs", "detail", "list"}

\* getPM2Processes: the entries of `pm2 jlist`; a failed query is caught and
\* gives [].
GetPM2Processes(up) == IF up THEN procs ELSE {}

\* lines 302-314 and 423-426: the bodies of the list and detail responses
ListBody(services) == [status |-> "success", services |-> services]
DetailBody(proc) == [status |-> "success", service |-> proc]

\* Mutant of CommandResult: the catch block is missing the failure result.
CommandResultSwallowed(kind, name, res) ==
    [success |-> TRUE, message |-> <<"Process", name, kind, "successfully">>]

\* What restart/stop/startPM2Process return once execAsync has settled with
\* res: the success result, or from the catch block the failure result with
\* error.message.
CommandResult(kind, name, res) ==
    IF res = "ok"
    THEN [success |-> TRUE, message |-> <<"Process", name, kind, "successfully">>]
    ELSE [success |-> FALSE, message |-> <<"Failed to", kind, name, res>>]

\* Mutant of LookupMissed: the `if (!process)` test is dropped.
LookupMissedNever(proc) == FALSE

\* if (!process)
LookupMissed(proc) == proc = "null"

\* The route answers request r; failed records that the supervisor query
\* behind the answer had failed.
Answer(r, failed, lookup, status, body) ==
    req' = [req EXCEPT ![r].pc = "done", ![r].failed = failed, ![r].lookup = lookup,
                       ![r].status = status, ![r].body = body]

\* An HTTP request arrives: GET /pm2 (list, no name), GET /pm2/[name]
\* (detail), GET /pm2/[name]/logs or POST /pm2/[name]/<kind>
HttpRequest(kind, name) ==
    /\ ~crashed
    /\ Len(req) < MaxReqs
    /\ events < MaxEvents
    /\ events' = events + 1
    /\ kind = "list" => name = ""
    /\ LET rq == [kind |-> kind, name |-> name, pc |-> "lookup", lookup |-> "none",
                  issued |-> FALSE, failed |-> FALSE, cmd |-> "none",
                  status |-> 0, body |-> NoBody]
       IN  IF name = "" /\ kind # "list"
           THEN /\ req' = Append(req, [rq EXCEPT !.pc = "done", !.status = 400,
                                         !.body = ErrorBody(<<"Service name is required">>)])
                /\ UNCHANGED cmds
           ELSE IF NeedsLookup(kind)
           THEN /\ req' = Append(req, rq)
                /\ UNCHANGED cmds
           ELSE /\ req' = Append(req, [rq EXCEPT !.pc = "exec", !.issued = TRUE])
                /\ cmds' = Append(cmds, [cmd |-> kind, name |-> name])
    /\ UNCHANGED <<fsVars, procs, gwVars, logVars>>

\* `await getPM2Process(name)` resolves in restartPM2Process, stopPM2Process,
\* the logs route or the detail route, or `await getPM2Processes()` in the
\* list route; the query failed when up is FALSE
LookupResolve(r, up) ==
    /\ ~crashed
    /\ r \in 1..Len(req)
    /\ req[r].pc = "lookup"
    /\ LET rq == req[r]
           proc == GetPM2Process(rq.name, up)
       IN  IF rq.kind = "list"
           THEN /\ Answer(r, ~up, "none", 200, ListBody(GetPM2Processes(up)))
                /\ UNCHANGED cmds
           ELSE IF rq.kind = "detail"
           THEN /\ IF LookupMissed(proc)
                   THEN Answer(r, ~up, "null", 404,
                               ErrorBody(<<"Service", rq.name, "not found">>))
                   ELSE Answer(r, ~up, "found", 200, DetailBody(proc))
                /\ UNCHANGED cmds
           ELSE IF rq.kind = "logs"
           THEN /\ IF LookupMissed(proc)
                   THEN Answer(r, ~up, "null", 404,
                               ErrorBody(<<"Service", rq.name, "not found">>))
                   ELSE Answer(r, ~up, "found", 200, LogsBody(rq.name))
                /\ UNCHANGED cmds
           ELSE IF LookupMissed(proc)
           THEN /\ Answer(r, ~up, "null", 404, ErrorBody(<<"Process", rq.name, "not found">>))
                /\ UNCHANGED cmds
           ELSE /\ cmds' = Append(cmds, [cmd |-> rq.kind, name |-> rq.name])
                /\ req' = [req EXCEPT ![r].pc = "exec", ![r].lookup = "found",
                                      ![r].issued = TRUE]
    /\ UNCHANGED <<fsVars, procs, events, gwVars, logVars>>

\* The supervisor command ends with res: it succeeds only for a process the
\* supervisor has and reports "notfound" only for one it does not have; it
\* can fail to run at all ("unavailable"). A failure rejects execAsync, the
\* catch block makes it a failure result, and the route answers 404 (restart,
\* stop) or 500 (start).
ExecResolve(r, res) ==
    /\ ~crashed
    /\ r \in 1..Len(req)
    /\ req[r].pc = "exec"
    /\ res = "ok" => req[r].name \in procs
    /\ res = "notfound" => req[r].name \notin procs
    /\ LET rq == req[r]
           result == CommandResult(rq.kind, rq.name, res)
       IN  IF result.success
           THEN req' = [req EXCEPT ![r].pc = "done", ![r].cmd = res, ![r].status = 200,
                           ![r].body = SuccessBody(rq.name, result.message)]
           ELSE req' = [req EXCEPT ![r].pc = "done", ![r].cmd = res,
                           ![r].failed = (res = "unavailable"),
                           ![r].status = IF rq.kind = "start" THEN 500 ELSE 404,
                           ![r].body = ErrorBody(result.message)]
    /\ UNCHANGED <<cmds, fsVars, procs, events, gwVars, logVars>>

\* The supervisor's list changes under the service (pm2 delete / pm2 start)
ProcDeleted(n) ==
    /\ n \in procs
    /\ events < MaxEvents
    /\ procs' = procs \ {n}
    /\ events' = events + 1
    /\ UNCHANGED <<fsVars, gwVars, httpVars, logVars>>

ProcAdded(n) ==
    /\ n \notin procs
    /\ events < MaxEvents
    /\ procs' = procs \cup {n}
    /\ events' = events + 1
    /\ UNCHANGED <<fsVars, gwVars, httpVars, logVars>>

\* ------------------------------------------------------------ service log
\* The service's own log. It is written by log() alone and no handler reads
\* it: the handlers' log() calls are the Log steps of SpecLog, and the other
\* specifications leave the file as it is.
LBR == -2                                      \* '['
RBR == -3                                      \* ']'

\* Array.prototype.join('\n'), by halving the array
RECURSIVE Join(_)
Join(ls) ==
    IF Len(ls) = 0 THEN <<>>
    ELSE IF Len(ls) = 1 THEN ls[1]
    ELSE LET h == Len(ls) \div 2
         IN  Join(SubSeq(ls, 1, h)) \o <<NL>> \o Join(SubSeq(ls, h + 1, Len(ls)))

\* Mutant of KeepLines: the first MAX_LOG_LINES lines are kept.
KeepLinesOldest(lines) == SubSeq(lines, 1, Min(Len(lines), MAX_LOG_LINES))

\* lines.slice(-MAX_LOG_LINES)
KeepLines(lines) == LastN(lines, MAX_LOG_LINES)

\* rotateLogs, on the file f
RotateLogs(f) ==
    IF ~f.exists THEN f
    ELSE LET lines == Lines(f.content)
         IN  IF Len(lines) > MAX_LOG_LINES
             THEN [f EXCEPT !.content = Join(KeepLines(lines)) \o <<NL>>]
             ELSE f

\* `[${now}] ${msg}`
Full(t, msg) == <<LBR, t, RBR, SP>> \o msg

\* fs.appendFileSync: the file is created when it does not exist
AppendFileSync(f, data) ==
    [exists |-> TRUE, content |-> (IF f.exists THEN f.content ELSE <<>>) \o data]

\* single-line messages: empty, a word
LogMsgs == {<<>>, <<7>>}

\* log(msg), called by a handler; the clock may have ticked since the last call
Log(msg) ==
    /\ ~crashed
    /\ events < MaxEvents
    /\ events' = events + 1
    /\ LET rotated == RotateLogs(logFile)
       IN  \E d \in {0, 1} :
               /\ now' = now + d
               /\ logFile' = AppendFileSync(rotated, Full(now + d, msg) \o <<NL>>)
    /\ UNCHANGED <<fsVars, procs, gwVars, httpVars>>

\* ---------------------------------------------------------- specification
ConnInputs ==
    {[name |-> "app", type |-> t] : t \in LogTypes}
        \cup {[name |-> "ghost", type |-> "both"], [name |-> "", type |-> "both"]}

InitFs ==
    \E o, e \in BOOLEAN :
        /\ inodes = (IF o THEN <<<<SP, NL>> \o Line(1)>> ELSE <<>>)
                        \o (IF e THEN <<Line(2)>> ELSE <<>>)
        /\ path = [ch \in Channels |->
                     IF ch = "out" THEN (IF o THEN 1 ELSE 0)
                     ELSE IF e THEN (IF o THEN 2 ELSE 1) ELSE 0]
        /\ nextId = 3

InitGw ==
    /\ wsState = [c \in Conns |-> "none"]
    /\ closeCode = [c \in Conns |-> 0]
    /\ chk = [c \in Conns |-> "idle"]
    /\ processName = [c \in Conns |-> ""]
    /\ logType = [c \in Conns |-> "both"]
    /\ sent = [c \in Conns |-> <<>>]
    /\ recv = [c \in Conns |-> <<>>]
    /\ listening = [c \in Conns |-> FALSE]
    /\ tail = [c \in Conns |-> [ch \in Channels |-> NoTail]]
    /\ tailProcess = [c \in Conns |-> "null"]
    /\ cleanups = [c \in Conns |-> 0]
    /\ early = [c \in Conns |-> FALSE]
    /\ wsConnections = {}
    /\ crashed = FALSE

InitHttp ==
    /\ req = <<>>
    /\ cmds = <<>>

\* the service starts with its log directory and an empty log
InitLog ==
    /\ logFile = [exists |-> TRUE, content |-> <<>>]
    /\ now = 1

Init ==
    /\ InitFs
    /\ procs = {"app"}
    /\ events = 0
    /\ InitGw
    /\ InitHttp
    /\ InitLog

Next ==
    \/ \E c \in Conns, i \in ConnInputs : Connect(c, i.name, i.type)
    \/ \E c \in Conns, up \in BOOLEAN, sp \in [Channels -> SpawnResults] :
            CheckResolve(c, up, sp)
    \/ \E c \in Conns, m \in ClientMsgs : ClientMessage(c, m)
    \/ \E c \in Conns : WsError(c)
    \/ \E c \in Conns : WsClose(c)
    \/ \E c \in Conns, ch \in Channels : TailOpen(c, ch)
    \/ \E c \in Conns, ch \in Channels : TailData(c, ch)
    \/ \E ch \in Channels : AppendLine(ch)
    \/ \E ch \in Channels : AppendBlank(ch)
    \/ \E ch \in Channels : Rotate(ch)

Spec == Init /\ [][Next]_vars

\* The HTTP control endpoints, over logs the process has already written:
\* out holds m lines, written first, error holds k lines, written after them.
ManyLines(first, n) ==
    [j \in 1..(3 * n) |-> IF j % 3 = 0 THEN NL ELSE first + ((j - 1) \div 3)]

InitFsHttp ==
    \E m \in {0, 1, LOGS_LIMIT}, k \in {0, 1} :
        /\ inodes = (IF m > 0 THEN <<ManyLines(1, m)>> ELSE <<>>)
                        \o (IF k > 0 THEN <<ManyLines(m + 1, k)>> ELSE <<>>)
        /\ path = [ch \in Channels |->
                     IF ch = "out" THEN (IF m > 0 THEN 1 ELSE 0)
                     ELSE IF k > 0 THEN (IF m > 0 THEN 2 ELSE 1) ELSE 0]
        /\ nextId = m + k + 1

InitCtl ==
    /\ InitFsHttp
    /\ procs = {"app"}
    /\ events = 0
    /\ InitGw
    /\ InitHttp
    /\ InitLog

NextHttp ==
    \/ \E kind \in ReqKinds, n \in Names : HttpRequest(kind, n)
    \/ \E r \in 1..MaxReqs, up \in BOOLEAN : LookupResolve(r, up)
    \/ \E r \in 1..MaxReqs, res \in CmdResults : ExecResolve(r, res)
    \/ \E n \in Names \ {""} : ProcDeleted(n)
    \/ \E n \in Names \ {""} : ProcAdded(n)
    \/ \E ch \in Channels : AppendLine(ch)
    \/ \E ch \in Channels : AppendBlank(ch)

SpecHttp == InitCtl /\ [][NextHttp]_vars

\* Sessions opened on logs that are already long: out holds k lines, around
\* the backlog length, error holds one line written after them.
InitFsBacklog ==
    \E k \in {1, BACKLOG_LINES, BACKLOG_LINES + 1} :
        /\ inodes = <<ManyLines(1, k), ManyLines(k + 1, 1)>>
        /\ path = [ch \in Channels |-> IF ch = "out" THEN 1 ELSE 2]
        /\ nextId = k + 2

InitBacklog ==
    /\ InitFsBacklog
    /\ procs = {"app"}
    /\ events = 0
    /\ InitGw
    /\ InitHttp
    /\ InitLog

\* The steps from a connection to its backlog and its live lines; client
\* messages, transport errors, blank writes and rotation are left to Spec.
NextBacklog ==
    \/ \E c \in Conns, i \in ConnInputs : Connect(c, i.name, i.type)
    \/ \E c \in Conns, up \in BOOLEAN, sp \in [Channels -> SpawnResults] :
            CheckResolve(c, up, sp)
    \/ \E c \in Conns : WsClose(c)
    \/ \E c \in Conns, ch \in Channels : TailOpen(c, ch)
    \/ \E c \in Conns, ch \in Channels : TailData(c, ch)
    \/ \E ch \in Channels : AppendLine(ch)

SpecBacklog == InitBacklog /\ [][NextBacklog]_vars

\* The service log by itself, over a log the service has already written: n
\* lines with empty messages, stamped 1..n, around the rotation threshold, or
\* no file yet (the log directory was there, the file was not).
LoggedLines(n) ==
    [j \in 1..(5 * n) |->
        LET k == (j - 1) % 5
        IN  IF k = 0 THEN LBR ELSE IF k = 1 THEN (j - 1) \div 5 + 1
            ELSE IF k = 2 THEN RBR ELSE IF k = 3 THEN SP ELSE NL]

InitLogged ==
    \/ /\ logFile = [exists |-> FALSE, content |-> <<>>]
       /\ now = 1
    \/ \E n \in {0, MAX_LOG_LINES, MAX_LOG_LINES + 1} :
          /\ logFile = [exists |-> TRUE, content |-> LoggedLines(n)]
          /\ now = Max(n, 1)

InitServiceLog ==
    /\ inodes = <<>>
    /\ path = [ch \in Channels |-> 0]
    /\ nextId = 1
    /\ procs = {"app"}
    /\ events = 0
    /\ InitGw
    /\ InitHttp
    /\ InitLogged

NextLog == \E msg \in LogMsgs : Log(msg)

SpecLog == InitServiceLog /\ [][NextLog]_vars

\* ------------------------------------------------------------- properties
Types(s) == [i \in 1..Len(s) |-> s[i].type]
Count(s, x) == Cardinality({i \in 1..Len(s) : s[i] = x})
Alive(t) == t.st \in {"spawned", "running"}
IsLog(m, ch) == m.type = "log" /\ m.logType = ch

\* the texts of the log messages of channel ch sent to c, in order
ChannelTexts(c, ch) ==
    LET logs == SelectSeq(sent[c], LAMBDA m : IsLog(m, ch))
    IN  [i \in 1..Len(logs) |-> logs[i].message]

\* those sent by the live tail: all but the backlog
LiveTexts(c, ch) ==
    SubSeq(ChannelTexts(c, ch), tail[c][ch].backlog + 1, Len(ChannelTexts(c, ch)))

\* the lines appended to the file a running tail has open, since it started
AppendedLines(c, ch) ==
    LET t == tail[c][ch]
    IN  Lines(SubSeq(inodes[t.ino], t.from + 1, Len(inodes[t.ino])))

\* C1: on every connection, a `log` message is sent only after the
\* `connected` message of that connection.
C1_ConnectedBeforeLog ==
    \A c \in Conns : \A i \in 1..Len(sent[c]) :
        sent[c][i].type = "log" => \E j \in 1..(i - 1) : sent[c][j].type = "connected"

\* C1 witness: a session of an existing process with existing log files has
\* been sent its backlog and a live line after the confirmation.
C1_Witness ==
    \E c \in Conns :
        /\ chk[c] = "found"
        /\ Types(sent[c]) = <<"connected", "log", "log", "log">>
        /\ tail[c]["out"].backlog = 1 /\ tail[c]["error"].backlog = 1

\* C2: once the close event of a session has been handled, none of the tail
\* processes the session started is still running.
C2_TailersReleasedOnClose ==
    \A c \in Conns :
        (wsState[c] = "closed" /\ listening[c] /\ ~early[c])
            => \A ch \in Channels : ~Alive(tail[c][ch])

\* C3: if the client disconnects while the existence check is in flight, then
\* after the check has resolved no tail process of that connection is running.
C3_NoTailerAfterEarlyDisconnect ==
    \A c \in Conns :
        (early[c] /\ chk[c] # "pending") => \A ch \in Channels : ~Alive(tail[c][ch])

\* C4: when the tail of an open session has copied its file to the end, the
\* live log messages of that channel are exactly the well-formed lines appended
\* to the file since the tail started, one message per line, in write order.
C4_AppendedLinesDeliveredInOrder ==
    \A c \in Conns : \A ch \in Channels :
        (wsState[c] = "open" /\ tail[c][ch].st = "running" /\ Unread(c, ch) = 0)
            => LiveTexts(c, ch) = AppendedLines(c, ch)

\* C5: when a watched log has been replaced and the session's tail has nothing
\* left to copy, every line written to the replacement file has been delivered
\* to the session as a log message of that channel.
C5_ReplacementFileDelivered ==
    \A c \in Conns : \A ch \in Channels :
        (/\ wsState[c] = "open" /\ tail[c][ch].st = "running" /\ Unread(c, ch) = 0
         /\ Exists(ch) /\ path[ch] # tail[c][ch].ino)
            => \A i \in 1..Len(Lines(Content(ch))) :
                  \E j \in 1..Len(ChannelTexts(c, ch)) :
                      ChannelTexts(c, ch)[j] = Lines(Content(ch))[i]

\* C6: every ping received on a connection has been answered by exactly one
\* pong: the pongs sent are as many as the pings received.
C6_OnePongPerPing ==
    \A c \in Conns : Count(Types(sent[c]), "pong") = Count(recv[c], "ping")

\* C7: a step in which a client message other than a ping is received sends
\* nothing on that connection, leaves its socket state and close code alone,
\* and leaves its tail processes and the registry as they were.
C7_OtherMessagesIgnored ==
    [][\A c \in Conns :
          (recv'[c] # recv[c] /\ recv'[c][Len(recv'[c])] # "ping")
              => /\ sent'[c] = sent[c]
                 /\ wsState'[c] = wsState[c]
                 /\ closeCode'[c] = closeCode[c]
                 /\ tail'[c] = tail[c]
                 /\ wsConnections' = wsConnections]_vars

\* C7 witness: an open session with a running tail has received malformed
\* payloads and is still open, in the registry, its tail still running.
C7_Witness ==
    \E c \in Conns :
        /\ listening[c] /\ wsState[c] = "open" /\ InRegistry(c)
        /\ recv[c] = <<"garbage">>
        /\ tail[c]["out"].st = "running"
        /\ Types(sent[c]) = <<"connected", "log">>

\* C8: a connection whose process was not found when the check resolved has
\* been sent the one message {type: error, "Process <name> not found"} and
\* nothing else, was closed by the gateway with code 1008, and has no session:
\* no `connected` message, no tail process, no registry entry, no listener.
\* (A client that left before the check resolved is sent nothing.)
C8_NotFoundRejected ==
    \A c \in Conns :
        chk[c] = "notfound" =>
            /\ sent[c] = IF early[c] THEN <<>>
                         ELSE <<[type |-> "error",
                                 message |-> <<"Process", processName[c], "not found">>]>>
            /\ ~early[c] => (closeCode[c] = 1008 /\ wsState[c] \in {"closing", "closed"})
            /\ \A ch \in Channels : tail[c][ch].st = "none"
            /\ tailProcess[c] = "null"
            /\ ~InRegistry(c)
            /\ ~listening[c]

\* C8 witness: an unknown process was asked for, the client was still there,
\* and the rejected connection has been closed.
C8_Witness ==
    \E c \in Conns :
        /\ chk[c] = "notfound" /\ processName[c] = "ghost" /\ ~early[c]
        /\ Len(sent[c]) = 1 /\ wsState[c] = "closed" /\ recv[c] = <<"ping">>

\* the request whose response is produced by this step, if any
Answered(r) == r \in 1..Len(req') /\ req'[r].pc = "done" /\ (r > Len(req) \/ req[r].pc # "done")

\* C9: a restart or stop command is handed to the supervisor only in a step
\* where the Process Directory reports the name; and a restart or stop request
\* whose lookup reported nothing is answered with the failure "Process <name>
\* not found" without any command having been issued for it.
C9_UnknownNeverInvoked ==
    [][/\ (Len(cmds') > Len(cmds) /\ cmds'[Len(cmds')].cmd \in {"restart", "stop"})
            => cmds'[Len(cmds')].name \in procs
       /\ \A r \in 1..Len(req) :
            (/\ req'[r].kind \in {"restart", "stop"}
             /\ req[r].pc = "lookup" /\ req'[r].pc # "lookup"
             /\ (req'[r].name \notin procs \/ req'[r].lookup = "null"))
                => /\ req'[r].pc = "done"
                   /\ ~req'[r].issued
                   /\ cmds' = cmds
                   /\ req'[r].status # 200
                   /\ req'[r].body =
                        [status |-> "error",
                         message |-> <<"Process", req'[r].name, "not found">>]]_vars

\* C9 witness: a restart of a name the supervisor does not have was answered
\* "not found" and no command was ever run.
C9_Witness ==
    \E r \in 1..Len(req) :
        /\ req[r].kind = "restart" /\ req[r].name = "ghost" /\ "ghost" \notin procs
        /\ req[r].pc = "done" /\ req[r].lookup = "null" /\ cmds = <<>>

\* the non-blank lines of the two logs of "app"
OutLines == IF Exists("out") THEN Lines(Content("out")) ELSE <<>>
ErrorLines == IF Exists("error") THEN Lines(Content("error")) ELSE <<>>

LogsAnswered(r) ==
    Answered(r) /\ req'[r].kind = "logs" /\ req'[r].status = 200 /\ req'[r].name = "app"

LogsCounts(b) ==
    /\ b.outLogLines = Len(OutLines)
    /\ b.errorLogLines = Len(ErrorLines)
    /\ b.totalLines = Len(OutLines) + Len(ErrorLines)
    /\ Len(b.logs) = Min(Len(OutLines) + Len(ErrorLines), LOGS_LIMIT)

\* C10, as claimed: the logs response counts the m out-lines and k error-lines,
\* holds min(m + k, 1000) entries, and its first entry is the line written last
\* of all (the line with the highest number, nextId - 1).
C10_FirstIsLastWritten ==
    [][\A r \in 1..Len(req') :
          LogsAnswered(r) =>
              /\ LogsCounts(req'[r].body)
              /\ req'[r].body.totalLines > 0
                    => req'[r].body.logs[1].message = Text(nextId - 1)]_vars

\* C10, amended: the counts and the length are as claimed; the first entry is
\* the last line of the error log when the error log has a line, and the last
\* line of the out log otherwise.
C10_FirstIsLastOfErrorLog ==
    [][\A r \in 1..Len(req') :
          LogsAnswered(r) =>
              /\ LogsCounts(req'[r].body)
              /\ req'[r].body.totalLines > 0
                    => req'[r].body.logs[1] =
                         IF Len(ErrorLines) > 0
                         THEN [type |-> "error", message |-> ErrorLines[Len(ErrorLines)],
                               timestamp |-> "null"]
                         ELSE [type |-> "out", message |-> OutLines[Len(OutLines)],
                               timestamp |-> "null"]]_vars

\* C10 witness: a logs response over more than 1000 lines, both logs non-empty,
\* cut to 1000 entries.
C10_Witness ==
    \E r \in 1..Len(req) :
        /\ req[r].kind = "logs" /\ req[r].status = 200
        /\ req[r].body.totalLines > 1000
        /\ req[r].body.outLogLines > 0 /\ req[r].body.errorLogLines > 0
        /\ Len(req[r].body.logs) = 1000

\* C11: a session that has been disconnected (its close event handled) has had
\* its teardown, streamLogs' cleanup, performed exactly once, and no session
\* ever has it performed more than once.
C11_TeardownExactlyOnce ==
    \A c \in Conns :
        /\ cleanups[c] <= 1
        /\ (listening[c] /\ wsState[c] = "closed" /\ ~early[c]) => cleanups[c] = 1

\* C12: when a channel of an open session had no file as the session opened
\* (so no tail of it was ever started), the file exists now and no tail of the
\* session has anything left to do, every line of the file has been delivered
\* to the session as a log message of that channel.
C12_MissingFileAwaited ==
    \A c \in Conns : \A ch \in Channels :
        (/\ listening[c] /\ wsState[c] = "open"
         /\ logType[c] \in {"both", ch}
         /\ tail[c][ch].st = "none"
         /\ \A o \in Channels : tail[c][o].st # "spawned" /\ Unread(c, o) = 0
         /\ Exists(ch))
            => \A i \in 1..Len(Lines(Content(ch))) :
                  \E j \in 1..Len(sent[c]) :
                      /\ IsLog(sent[c][j], ch)
                      /\ sent[c][j].message = Lines(Content(ch))[i]

\* the channels a session with this filter owns a tailer of
OwnedChannels(filter) ==
    IF filter = "both" THEN {"out", "error"}
    ELSE IF filter = "out" THEN {"out"}
    ELSE IF filter = "error" THEN {"error"}
    ELSE {}

\* C14: a session opened with filter both, out or error has started a tailer
\* for exactly the channels of its filter (one stdout and one stderr tailer for
\* both, only stdout for out, only stderr for error), and every log message it
\* was sent is of a channel of its filter.
C14_TailersFollowFilter ==
    \A c \in Conns :
        (chk[c] = "found" /\ logType[c] \in {"both", "out", "error"}) =>
            /\ {ch \in Channels : tail[c][ch].st # "none"} = OwnedChannels(logType[c])
            /\ \A i \in 1..Len(sent[c]) :
                  sent[c][i].type = "log" => sent[c][i].logType \in OwnedChannels(logType[c])

\* C18: every live log message of a running tail carries the complete text of
\* a line of the file, and there are no more live messages than lines appended:
\* a line that reached the gateway in two chunks is one message.
C18_PartialLineBuffered ==
    \A c \in Conns : \A ch \in Channels :
        tail[c][ch].st = "running" =>
            /\ Len(LiveTexts(c, ch)) <= Len(AppendedLines(c, ch))
            /\ \A i \in 1..Len(LiveTexts(c, ch)) :
                  \E j \in 1..Len(AppendedLines(c, ch)) :
                      LiveTexts(c, ch)[i] = AppendedLines(c, ch)[j]

\* the position of a complete line of inode f among the lines of f (0: none)
LinePos(f, text) ==
    LET L == Lines(inodes[f])
        ps == {p \in 1..Len(L) : L[p] = text}
    IN  IF ps = {} THEN 0 ELSE CHOOSE p \in ps : TRUE

\* C19: for every session and channel, if line a precedes line b in a file
\* and both were delivered, every message for a was sent before every message
\* for b.
C19_FileOrderWithinTailer ==
    \A c \in Conns : \A ch \in Channels : \A f \in 1..Len(inodes) :
        LET T == ChannelTexts(c, ch)
        IN  \A i, j \in 1..Len(T) :
                (/\ LinePos(f, T[i]) > 0 /\ LinePos(f, T[j]) > 0
                 /\ LinePos(f, T[i]) < LinePos(f, T[j]))
                    => i < j

\* C19 witness: a session was sent the backlog line of the out log and then
\* the two lines appended to it afterwards, in file order.
C19_Witness ==
    \E c \in Conns :
        /\ ChannelTexts(c, "out") = <<Text(1), Text(3), Text(4)>>
        /\ tail[c]["out"].backlog = 1

\* C13: the step that opens a session for a client still connected sends, for
\* each channel of its filter whose file holds k lines, exactly the last
\* min(k, 100) of them, once each and in file order, as the only log messages
\* of that channel so far; and every later step only appends to what the
\* session was sent, so these backlog messages precede every live message.
C13_BacklogReplayed ==
    [][\A c \in Conns :
          /\ (chk[c] = "pending" /\ chk'[c] = "found" /\ wsState[c] = "open") =>
                \A ch \in Channels :
                    (logType[c] \in {"both", ch} /\ Exists(ch)) =>
                        LET L == Lines(Content(ch))
                            k == Len(L)
                            n == IF k < 100 THEN k ELSE 100
                            logs == SelectSeq(sent'[c], LAMBDA m : IsLog(m, ch))
                        IN  /\ Len(logs) = n
                            /\ \A i \in 1..n : logs[i].message = L[k - n + i]
          /\ chk[c] = "found" =>
                /\ Len(sent'[c]) >= Len(sent[c])
                /\ SubSeq(sent'[c], 1, Len(sent[c])) = sent[c]]_vars

\* C13 witness: a session on an out log of 101 lines was sent its last 100
\* lines (2..101) as backlog and then a line appended afterwards.
C13_Witness ==
    \E c \in Conns :
        /\ tail[c]["out"].backlog = 100
        /\ Len(ChannelTexts(c, "out")) = 101
        /\ ChannelTexts(c, "out")[1] = Text(2)
        /\ ChannelTexts(c, "out")[100] = Text(101)
        /\ ChannelTexts(c, "out")[101] = Text(103)

\* C15: every answered request behind which a supervisor query or command
\* failed to run was answered with HTTP 500 and a `status: error` body, which
\* is not the body of the NotFound outcome.
C15_UnavailableIs500 ==
    \A r \in 1..Len(req) :
        (req[r].pc = "done" /\ req[r].failed) =>
            /\ req[r].status = 500
            /\ req[r].body.status = "error"
            /\ req[r].body.message \notin {<<"Service", req[r].name, "not found">>,
                                           <<"Process", req[r].name, "not found">>}

\* C20: a restart or stop request answered after its command ran is answered
\* with success only if the command completed without error; and when the
\* existence check had found the process and the command then failed (the
\* process was deleted in between), the answer is a failure that carries the
\* supervisor's error.
C20_StaleCommandFails ==
    \A r \in 1..Len(req) :
        (req[r].pc = "done" /\ req[r].kind \in {"restart", "stop"}) =>
            /\ (req[r].status = 200 \/ req[r].body.status = "success")
                   => req[r].cmd = "ok"
            /\ (req[r].lookup = "found" /\ req[r].cmd # "ok")
                   => /\ req[r].status # 200
                      /\ req[r].body =
                           [status |-> "error",
                            message |-> <<"Failed to", req[r].kind, req[r].name, req[r].cmd>>]

\* C20 witness: the process was found by the check of a stop request, deleted,
\* and the command then failed with the supervisor's "notfound".
C20_Witness ==
    \E r \in 1..Len(req) :
        /\ req[r].kind = "stop" /\ req[r].pc = "done"
        /\ req[r].lookup = "found" /\ req[r].cmd = "notfound"
        /\ req[r].name \notin procs
        /\ req[r].status = 404

\* C16: the gateway is never terminated by an unhandled error, whatever
\* supervisor call, log-file read or start of a tail process fails.
C16_NoFailureTerminates == ~crashed

\* C17: on every connection an error message is the last message sent, and
\* the gateway has closed a connection it sent one to.
C17_ErrorIsFinal ==
    \A c \in Conns : \A i \in 1..Len(sent[c]) :
        sent[c][i].type = "error" =>
            /\ i = Len(sent[c])
            /\ wsState[c] \in {"closing", "closed"}
            /\ closeCode[c] \in {1008, 1011}

\* C17 witness: one connection was refused for an unknown process and has
\* been closed; on another the error followed the confirmation, when
\* streamLogs threw.
C17_Witness ==
    \E c, d \in Conns :
        /\ Types(sent[c]) = <<"error">> /\ closeCode[c] = 1008 /\ wsState[c] = "closed"
        /\ Len(sent[d]) >= 2 /\ sent[d][1].type = "connected"
        /\ sent[d][Len(sent[d])].type = "error" /\ closeCode[d] = 1011

\* the gateway serves session d: its socket is open, its listeners are
\* registered and the service is running
Serving(d) == ~crashed /\ listening[d] /\ wsState[d] = "open"

\* a step of connection c: it is accepted, its check resolves (its session
\* opens), it is closed or it errors
StepOf(c) == wsState'[c] # wsState[c] \/ chk'[c] # chk[c]

\* C21: a step that opens, closes or errors one connection leaves the tail
\* processes and the registry entry of every other session as they were, and
\* the gateway goes on serving that session, so that it receives the lines
\* appended afterwards.
C21_SessionsIndependent ==
    [][\A c, d \in Conns :
          (c # d /\ StepOf(c) /\ Serving(d)) =>
              /\ tail'[d] = tail[d]
              /\ {e \in wsConnections' : e.ws = d} = {e \in wsConnections : e.ws = d}
              /\ sent'[d] = sent[d]
              /\ ~crashed' /\ listening'[d] /\ wsState'[d] = "open"]_vars

\* C23: on an open session whose tail of a channel is running, every line that
\* was in the file when the tail started (at most 100 of them) has been
\* delivered as a log message of that channel: the lines the backlog read saw
\* and the lines appended between the backlog read and the start of the tail.
C23_NoLineLostInHandOff ==
    \A c \in Conns : \A ch \in Channels :
        LET t == tail[c][ch]
            before == IF t.st = "running" THEN Lines(SubSeq(inodes[t.ino], 1, t.from)) ELSE <<>>
        IN  (listening[c] /\ wsState[c] = "open" /\ t.st = "running" /\ Len(before) <= 100)
                => \A p \in 1..Len(before) :
                      \E i \in 1..Len(sent[c]) :
                          IsLog(sent[c][i], ch) /\ sent[c][i].message = before[p]

\* C25: every registry entry belongs to a connection whose close or error
\* event has not been handled yet; a connection that has disconnected has no
\* entry.
C25_RegistryOnlyLive ==
    \A c \in Conns : InRegistry(c) => wsState[c] = "open"

\* C26: on every session, each line of a log file has been delivered at most
\* once on its channel, backlog and live messages together.
C26_NoLineTwice ==
    \A c \in Conns : \A ch \in Channels : \A f \in 1..Len(inodes) :
        \A p \in 1..Len(Lines(inodes[f])) :
            Cardinality({i \in 1..Len(sent[c]) :
                            IsLog(sent[c][i], ch) /\ sent[c][i].message = Lines(inodes[f])[p]}) <= 1

\* C26 witness: a session was sent the one line of the out log as backlog and
\* the line appended next as a live message, each once, and the tail has
\* copied the file to its end.
C26_Witness ==
    \E c \in Conns :
        /\ wsState[c] = "open" /\ tail[c]["out"].st = "running" /\ Unread(c, "out") = 0
        /\ tail[c]["out"].backlog = 1
        /\ ChannelTexts(c, "out") = <<Text(1), Text(3)>>
        /\ Lines(inodes[tail[c]["out"].ino]) = <<Text(1), Text(3)>>

\* C22: in a step that invokes a session's cleanup, all the invocations of the
\* step leave the session's tails as the first one alone leaves them, and one
\* more invocation would change nothing; when the cleanup had been invoked in
\* an earlier step already, the tail processes of every session and the
\* connection registry stay as they were, and the service goes on running
\* (watchers is never anything but the empty list).
C22_CleanupIdempotent ==
    [][\A c \in Conns :
          cleanups'[c] > cleanups[c] =>
              /\ tail'[c] = Cleanup(c, tail[c])
              /\ Cleanup(c, tail'[c]) = tail'[c]
              /\ cleanups[c] >= 1 => (tail' = tail /\ wsConnections' = wsConnections)
              /\ crashed' = crashed]_vars

\* C22 witness: the cleanup of a session with both tails was invoked three
\* times (twice on 'error', once on 'close'); the stdout tail is killed.
C22_Witness ==
    \E c \in Conns :
        /\ cleanups[c] = 3 /\ wsState[c] = "closed"
        /\ tail[c]["out"].st = "killed"
        /\ tail[c]["error"].st \in {"spawned", "running"}

\* the non-blank lines of the service log
ServiceLogLines(f) == IF f.exists THEN Lines(f.content) ELSE <<>>

\* C24: after a call of log() with a single-line message the service log holds
\* at most MAX_LOG_LINES + 1 non-blank lines, the last of them the new one;
\* before it come the last MAX_LOG_LINES lines the log held, in their order,
\* when it held more than MAX_LOG_LINES, and all the lines it held otherwise.
C24_ServiceLogRotated ==
    [][logFile' # logFile =>
          LET old == ServiceLogLines(logFile)
              new == ServiceLogLines(logFile')
              kept == SubSeq(new, 1, Len(new) - 1)
          IN  /\ Len(new) >= 1
              /\ Len(new) <= MAX_LOG_LINES + 1
              /\ Len(old) > MAX_LOG_LINES =>
                     kept = SubSeq(old, Len(old) - MAX_LOG_LINES + 1, Len(old))
              /\ Len(old) <= MAX_LOG_LINES => kept = old]_vars

\* C24 witness: a log of MAX_LOG_LINES + 1 lines was rotated by the next call:
\* the line stamped 1 is gone, the log starts with the line stamped 2 and
\* holds MAX_LOG_LINES + 1 lines again.
C24_Witness ==
    /\ events >= 1
    /\ Len(ServiceLogLines(logFile)) = MAX_LOG_LINES + 1
    /\ ServiceLogLines(logFile)[1] = Full(2, <<>>)

====
